---- MODULE Spec2Model ----
(***************************************************************************)
(* Model of src/main.py: a webhook-driven Telegram bot that answers        *)
(* portfolio, market and profit commands.                                  *)
(*                                                                         *)
(* Representation.                                                         *)
(*  - A character is a record [l, s, up]: the letter, its script ("lat",   *)
(*    "cyr" or "sym" for a non-letter) and whether it is upper case.       *)
(*    Cyrillic letters are named by transliteration ("soft" is the soft    *)
(*    sign).  A text is a sequence of characters.                          *)
(*  - Money is an integer.  The provider's prices are in tenths of a cent, *)
(*    rounded prices and purchase prices in cents, percents in hundredths  *)
(*    of a percent.  round(x, 2) is modelled on exact rationals (ties to   *)
(*    even, as Python rounds).                                             *)
(*  - A reply is a record [kind, body]; the fixed lines have an empty body.*)
(***************************************************************************)
EXTENDS Integers, Sequences, FiniteSets, TLC

\* ------------------------------------------------------------------ bounds

\* Number of request slots of the host.
NumRequests == 2
\* Largest number of entries of a portfolio.json object.
MaxEntries == 2

Requests == 1..NumRequests

\* ------------------------------------------------------------------- texts

Ch(l, s, up) == [l |-> l, s |-> s, up |-> up]
Lat(w) == [i \in 1..Len(w) |-> Ch(w[i], "lat", FALSE)]
Cyr(w) == [i \in 1..Len(w) |-> Ch(w[i], "cyr", FALSE)]
Slash == Ch("/", "sym", FALSE)
Space == Ch(" ", "sym", FALSE)

\* str.upper(), used to build inputs only.
Upper(t) == [i \in 1..Len(t) |-> IF t[i].s = "sym" THEN t[i] ELSE [t[i] EXCEPT !.up = TRUE]]

\* update.message.text.lower()
Lower(t) == [i \in 1..Len(t) |-> [t[i] EXCEPT !.up = FALSE]]

\* The tokens echo compares the lowered text with.
TokPortfel == <<Slash>> \o Cyr(<<"p", "o", "r", "t", "f", "e", "l", "soft">>)
TokRynok == <<Slash>> \o Cyr(<<"r", "y", "n", "o", "k">>)
TokProfit == <<Slash>> \o Cyr(<<"p", "r", "o", "f", "i", "t">>)
TokNft == <<Slash>> \o Cyr(<<"n", "f", "t">>)

\* The commands registered with CommandHandler (without the slash).
CmdStart == Lat(<<"s", "t", "a", "r", "t">>)
CmdPortfolio == Lat(<<"p", "o", "r", "t", "f", "o", "l", "i", "o">>)
CmdMarket == Lat(<<"m", "a", "r", "k", "e", "t">>)
CmdProfit == Lat(<<"p", "r", "o", "f", "i", "t">>)

\* Length of the bot_command entity the platform puts at offset 0 of a text:
\* a slash followed by a non-empty run of Latin letters (0: no such entity).
\* filters.COMMAND and CommandHandler both read this entity.
RECURSIVE LatinRun(_, _)
LatinRun(t, i) ==
  IF i > Len(t) \/ t[i].s # "lat" THEN 0 ELSE 1 + LatinRun(t, i + 1)

BotCommandLength(t) ==
  IF Len(t) >= 2 /\ t[1] = Slash /\ LatinRun(t, 2) > 0 THEN 1 + LatinRun(t, 2) ELSE 0

\* CommandHandler.check_update: the entity's command, lowered, is the
\* registered one; whatever follows the entity is the command's arguments.
CommandMatches(t, cmd) ==
  /\ BotCommandLength(t) > 0
  /\ Lower(SubSeq(t, 2, BotCommandLength(t))) = cmd

\* filters.TEXT & ~filters.COMMAND
IsPlainText(t) == Len(t) > 0 /\ BotCommandLength(t) = 0

\* echo: the branch taken for a text.
EchoBranch(t) ==
  IF Lower(t) = TokPortfel THEN "portfolio"
  ELSE IF Lower(t) = TokRynok THEN "market"
  ELSE IF Lower(t) = TokProfit THEN "profit"
  ELSE IF Lower(t) = TokNft THEN "nft"
  ELSE "help"

\* Application.process_update over the handlers in registration order: the
\* first handler whose check accepts the update runs, and only that one.
\* [via, cmd]: the handler, and the reply logic it runs ("none": no handler).
Dispatch(t) ==
  IF CommandMatches(t, CmdStart) THEN [via |-> "start", cmd |-> "start"]
  ELSE IF CommandMatches(t, CmdPortfolio) THEN [via |-> "portfolio", cmd |-> "portfolio"]
  ELSE IF CommandMatches(t, CmdMarket) THEN [via |-> "market", cmd |-> "market"]
  ELSE IF CommandMatches(t, CmdProfit) THEN [via |-> "profit", cmd |-> "profit"]
  ELSE IF IsPlainText(t) THEN [via |-> "echo", cmd |-> EchoBranch(t)]
  ELSE [via |-> "none", cmd |-> "none"]

\* Inbound texts: every stem, as typed and in upper case, alone and followed
\* by a space or by a space and an argument.
Stems ==
  { TokPortfel, TokRynok, TokProfit, TokNft,
    <<Slash>> \o CmdStart, <<Slash>> \o CmdPortfolio,
    <<Slash>> \o CmdMarket, <<Slash>> \o CmdProfit,
    <<Slash>> \o Lat(<<"f", "o", "o">>),
    <<Slash>> \o Cyr(<<"k", "t", "o">>),
    Lat(<<"h", "i">>) }
Suffixes == { <<>>, <<Space>>, <<Space, Ch("x", "lat", FALSE)>> }
Texts == { s \o x : s \in Stems \cup { Upper(s) : s \in Stems }, x \in Suffixes }

\* --------------------------------------------------------------- portfolio

\* The values of portfolio.json's entries.
StdInfo(b) == [amount |-> 1, buy_usd |-> b]
NoBuyInfo == [amount |-> 1]
StakeInfo == [amount |-> 500, staking |-> 5]
NftInfo == [name |-> "VALA", buy_floor_sol |-> 2]

Entry(k, i) == [key |-> k, info |-> i]

\* Entries a portfolio.json is built from (purchase prices in cents).
Entries ==
  { Entry("BTC", StdInfo(10000)), Entry("BTC", StdInfo(30000)),
    Entry("BTC", StdInfo(0)), Entry("BTC", NoBuyInfo),
    Entry("ETH", StdInfo(10000)), Entry("ETH", StdInfo(0)),
    Entry("USDT", StakeInfo), Entry("NFT", NftInfo) }

DistinctKeys(es) == \A i, j \in 1..Len(es) : es[i].key = es[j].key => i = j

\* The JSON objects the file can hold, in the file's order of keys.
Objects ==
  { es \in UNION { [1..n -> Entries] : n \in 0..MaxEntries } : DistinctKeys(es) }

\* portfolio.json: absent, not JSON, JSON that is not an object, or an object.
File(exists, valid, object, es) ==
  [exists |-> exists, valid |-> valid, object |-> object, entries |-> es]
Files ==
  { File(FALSE, FALSE, FALSE, <<>>), File(TRUE, FALSE, FALSE, <<>>),
    File(TRUE, TRUE, FALSE, <<>>) }
    \cup { File(TRUE, TRUE, TRUE, es) : es \in Objects }

\* open("portfolio.json") and json.load(f): raises unless the file is there
\* and parses.
LoadOk(f) == f.exists /\ f.valid

\* ------------------------------------------------------------------ prices

Symbols == <<"BTC", "ETH", "SOL", "ARB", "TON">>
SymbolSet == { Symbols[i] : i \in 1..Len(Symbols) }

\* round(x, n) of the exact quotient num / den (den > 0): nearest, ties to even.
Round(num, den) ==
  LET q == num \div den
      r == num - q * den
  IN  IF 2 * r > den THEN q + 1
      ELSE IF 2 * r < den THEN q
      ELSE IF q % 2 = 0 THEN q ELSE q + 1

\* The provider's answer to the GET: whether the connection worked, the HTTP
\* status, whether the body is JSON with a "data" member, and the USD prices
\* it carries (tenths of a cent) by symbol.
Response(net, status, json, data) ==
  [net |-> net, status |-> status, json |-> json, data |-> data]
Quote(btc) ==
  [s \in SymbolSet |-> IF s = "BTC" THEN btc ELSE 250004]
NoData == [s \in {} |-> 0]
Responses ==
  { Response(FALSE, 0, FALSE, NoData),
    Response(TRUE, 500, TRUE, Quote(120000)),
    Response(TRUE, 200, FALSE, NoData),
    Response(TRUE, 200, TRUE, [s \in SymbolSet \ {"TON"} |-> 250004]) }
    \cup { Response(TRUE, 200, TRUE, Quote(b)) : b \in {99996, 100000, 120000, 300014} }

\* get_prices: the rounded prices (cents) by symbol, or None.
None == [none |-> TRUE]
IsNone(p) == "none" \in DOMAIN p
get_prices(resp) ==
  IF /\ resp.net
     /\ resp.status >= 200 /\ resp.status < 300
     /\ resp.json
     /\ SymbolSet \subseteq DOMAIN resp.data
  THEN [s \in SymbolSet |-> Round(resp.data[s], 10)]
  ELSE None

\* ------------------------------------------------------------------ profit

\* percent = round(((current_price - buy_price) / buy_price) * 100, 2),
\* in hundredths of a percent.
Percent(current_price, buy_price) ==
  Round((current_price - buy_price) * 10000, buy_price)

\* arrow = up if percent > 0 else down
ArrowNonNegative(percent) == IF percent >= 0 THEN "up" ELSE "down"
Arrow(percent) == IF percent > 0 THEN "up" ELSE "down"

\* One line of the profit reply: f"{token}: {percent:+.2f}% {arrow}".
ProfitLine(token, percent) ==
  [token |-> token, percent |-> percent, arrow |-> Arrow(percent)]

\* Whether the loop body of calculate_profit raises on an entry: KeyError
\* without buy_usd, ZeroDivisionError with a purchase price of 0.
EntryRaises(prices, e) ==
  /\ e.key \in DOMAIN prices
  /\ \/ "buy_usd" \notin DOMAIN e.info
     \/ e.info.buy_usd = 0

\* calculate_profit: [ok, lines]; ok is FALSE when an exception leaves it.
RECURSIVE ProfitLoop(_, _, _, _)
ProfitLoop(prices, es, i, result) ==
  IF i > Len(es) THEN [ok |-> TRUE, lines |-> result]
  ELSE IF es[i].key \notin DOMAIN prices THEN ProfitLoop(prices, es, i + 1, result)
  ELSE IF EntryRaises(prices, es[i]) THEN [ok |-> FALSE, lines |-> <<>>]
  ELSE ProfitLoop(prices, es, i + 1,
         Append(result, ProfitLine(es[i].key, Percent(prices[es[i].key], es[i].info.buy_usd))))

calculate_profit(prices, data) ==
  IF ~data.object THEN [ok |-> FALSE, lines |-> <<>>]
  ELSE ProfitLoop(prices, data.entries, 1, <<>>)

\* ----------------------------------------------------------------- replies

\* A reply that is one fixed line.
FixedLine(kind) == [kind |-> kind, body |-> <<>>]

StartReply == FixedLine("start")
PortfolioError == FixedLine("portfolio_error")
MarketError == FixedLine("market_error")
PricesError == FixedLine("prices_error")
ProfitError == FixedLine("profit_error")
NftReply == FixedLine("nft")
HelpReply == FixedLine("help")

\* portfolio: the line template of an entry, and the fields it reads.
Template(e) ==
  IF e.key = "USDT" THEN "stable" ELSE IF e.key = "NFT" THEN "nft" ELSE "standard"
FieldsRead(e) ==
  IF e.key = "USDT" THEN {"amount", "staking"}
  ELSE IF e.key = "NFT" THEN {"name", "buy_floor_sol"}
  ELSE {"amount", "buy_usd"}

\* portfolio: whether the try block reaches the send, and the reply it built.
PortfolioBuilt(f) ==
  /\ LoadOk(f)
  /\ f.object
  /\ \A i \in 1..Len(f.entries) : FieldsRead(f.entries[i]) \subseteq DOMAIN f.entries[i].info
PortfolioReply(f) ==
  [kind |-> "portfolio",
   body |-> [i \in 1..Len(f.entries) |->
              [key |-> f.entries[i].key, template |-> Template(f.entries[i]),
               info |-> f.entries[i].info]]]

\* market: the reply for what get_prices returned.
MarketUnguarded(prices) ==
  [kind |-> "market",
   body |-> [i \in 1..Len(Symbols) |->
              [token |-> Symbols[i],
               price |-> IF IsNone(prices) THEN 0 ELSE prices[Symbols[i]]]]]
MarketReply(prices) ==
  IF ~IsNone(prices)
  THEN [kind |-> "market",
        body |-> [i \in 1..Len(Symbols) |-> [token |-> Symbols[i], price |-> prices[Symbols[i]]]]]
  ELSE MarketError

\* profit: the reply built from the lines of calculate_profit.
ProfitReply(lines) == [kind |-> "profit", body |-> lines]

\* The reply the except clause of a handler sends.
ExceptLine(cmd) == IF cmd = "portfolio" THEN PortfolioError ELSE ProfitError

\* The reply of the handlers that read nothing.
StaticReply(cmd) ==
  IF cmd = "start" THEN StartReply ELSE IF cmd = "nft" THEN NftReply ELSE HelpReply

\* HTTPStatus.OK, and the status the framework answers with when the
\* endpoint raises.
HTTP_OK == 200
HTTP_ERROR == 500

\* ------------------------------------------------------------------ bodies

\* The body of a delivery: whether it is JSON, whether the JSON is an update
\* with a message, and the message's text (empty: a message without text).
Body(json, update, t) == [json |-> json, update |-> update, text |-> t]
Bodies ==
  { Body(FALSE, FALSE, <<>>), Body(TRUE, FALSE, <<>>), Body(TRUE, TRUE, <<>>) }
    \cup { Body(TRUE, TRUE, t) : t \in Texts }

\* ------------------------------------------------------------------- state

VARIABLES
  pc,         \* per request: "idle", "fetch" (awaiting the GET), "send"
              \* (awaiting reply_text), "done"
  body,       \* the delivery's body
  route,      \* the handler that runs and the reply logic it runs
  portfolio,  \* profit's local: the loaded portfolio
  pending,    \* the reply text handed to reply_text
  guarded,    \* whether the pending reply_text is inside a try block
  sent,       \* the send attempts: [text, ok]
  gets,       \* HTTP GETs issued to the provider
  status,     \* HTTP status returned to the platform (0: none yet)
  escaped,    \* an exception left the handler
  fileSeen,   \* the content of portfolio.json when the request read it
  respSeen    \* the provider's answer to the request's GET

vars == <<pc, body, route, portfolio, pending, guarded, sent, gets, status,
          escaped, fileSeen, respSeen>>

NoBody == Body(FALSE, FALSE, <<>>)
NoRoute == [via |-> "none", cmd |-> "none"]
NoFile == File(FALSE, FALSE, FALSE, <<>>)
NoResponse == Response(FALSE, 0, FALSE, NoData)
NoReply == FixedLine("")

Init ==
  /\ pc = [r \in Requests |-> "idle"]
  /\ body = [r \in Requests |-> NoBody]
  /\ route = [r \in Requests |-> NoRoute]
  /\ portfolio = [r \in Requests |-> NoFile]
  /\ pending = [r \in Requests |-> NoReply]
  /\ guarded = [r \in Requests |-> FALSE]
  /\ sent = [r \in Requests |-> <<>>]
  /\ gets = [r \in Requests |-> 0]
  /\ status = [r \in Requests |-> 0]
  /\ escaped = [r \in Requests |-> FALSE]
  /\ fileSeen = [r \in Requests |-> NoFile]
  /\ respSeen = [r \in Requests |-> NoResponse]

\* ----------------------------------------------------------------- actions

\* process_update: request.json() or Update.de_json raises; the framework
\* answers for the endpoint.
ReceiveUndecodable(r, bodies) ==
  /\ pc[r] = "idle"
  /\ \E b \in bodies :
    /\ ~(b.json /\ b.update)
    /\ body' = [body EXCEPT ![r] = b]
    /\ status' = [status EXCEPT ![r] = HTTP_ERROR]
    /\ pc' = [pc EXCEPT ![r] = "done"]
    /\ UNCHANGED <<route, portfolio, pending, guarded, sent, gets, escaped,
                   fileSeen, respSeen>>

\* process_update: no handler accepts the update; nothing is sent.
ReceiveUnhandled(r, bodies) ==
  /\ pc[r] = "idle"
  /\ \E b \in bodies :
    /\ b.json /\ b.update
    /\ Dispatch(b.text).via = "none"
    /\ body' = [body EXCEPT ![r] = b]
    /\ route' = [route EXCEPT ![r] = Dispatch(b.text)]
    /\ status' = [status EXCEPT ![r] = HTTP_OK]
    /\ pc' = [pc EXCEPT ![r] = "done"]
    /\ UNCHANGED <<portfolio, pending, guarded, sent, gets, escaped,
                   fileSeen, respSeen>>

\* start, and echo's /nft and help branches, up to their reply_text.
ReceiveStatic(r, bodies) ==
  /\ pc[r] = "idle"
  /\ \E b \in bodies :
    /\ b.json /\ b.update
    /\ Dispatch(b.text).cmd \in {"start", "nft", "help"}
    /\ body' = [body EXCEPT ![r] = b]
    /\ route' = [route EXCEPT ![r] = Dispatch(b.text)]
    /\ pending' = [pending EXCEPT ![r] = StaticReply(Dispatch(b.text).cmd)]
    /\ guarded' = [guarded EXCEPT ![r] = FALSE]
    /\ pc' = [pc EXCEPT ![r] = "send"]
    /\ UNCHANGED <<portfolio, sent, gets, status, escaped, fileSeen, respSeen>>

\* portfolio, up to its first reply_text: the one at the end of the try
\* block, or the one of the except clause when the block raised before it.
ReceivePortfolio(r, bodies, files) ==
  /\ pc[r] = "idle"
  /\ \E b \in bodies, f \in files :
    /\ b.json /\ b.update
    /\ Dispatch(b.text).cmd = "portfolio"
    /\ body' = [body EXCEPT ![r] = b]
    /\ route' = [route EXCEPT ![r] = Dispatch(b.text)]
    /\ fileSeen' = [fileSeen EXCEPT ![r] = f]
    /\ IF PortfolioBuilt(f)
       THEN /\ pending' = [pending EXCEPT ![r] = PortfolioReply(f)]
            /\ guarded' = [guarded EXCEPT ![r] = TRUE]
       ELSE /\ pending' = [pending EXCEPT ![r] = ExceptLine("portfolio")]
            /\ guarded' = [guarded EXCEPT ![r] = FALSE]
    /\ pc' = [pc EXCEPT ![r] = "send"]
    /\ UNCHANGED <<portfolio, sent, gets, status, escaped, respSeen>>

\* market, up to the GET of get_prices.
ReceiveMarket(r, bodies) ==
  /\ pc[r] = "idle"
  /\ \E b \in bodies :
    /\ b.json /\ b.update
    /\ Dispatch(b.text).cmd = "market"
    /\ body' = [body EXCEPT ![r] = b]
    /\ route' = [route EXCEPT ![r] = Dispatch(b.text)]
    /\ pc' = [pc EXCEPT ![r] = "fetch"]
    /\ UNCHANGED <<portfolio, pending, guarded, sent, gets, status, escaped,
                   fileSeen, respSeen>>

\* profit, up to the GET of get_prices, or up to the reply_text of the
\* except clause when the load raised.
ReceiveProfit(r, bodies, files) ==
  /\ pc[r] = "idle"
  /\ \E b \in bodies, f \in files :
    /\ b.json /\ b.update
    /\ Dispatch(b.text).cmd = "profit"
    /\ body' = [body EXCEPT ![r] = b]
    /\ route' = [route EXCEPT ![r] = Dispatch(b.text)]
    /\ fileSeen' = [fileSeen EXCEPT ![r] = f]
    /\ IF LoadOk(f)
       THEN /\ portfolio' = [portfolio EXCEPT ![r] = f]
            /\ pc' = [pc EXCEPT ![r] = "fetch"]
            /\ UNCHANGED <<pending, guarded>>
       ELSE /\ pending' = [pending EXCEPT ![r] = ExceptLine("profit")]
            /\ guarded' = [guarded EXCEPT ![r] = FALSE]
            /\ pc' = [pc EXCEPT ![r] = "send"]
            /\ UNCHANGED portfolio
    /\ UNCHANGED <<sent, gets, status, escaped, respSeen>>

\* get_prices: the GETs one call issues (no retry).
LoopingGets(resp) == IF IsNone(get_prices(resp)) THEN 2 ELSE 1
GetsPerCall(resp) == 1

\* market, from the provider's answer to reply_text.
FetchMarket(r, resps) ==
  \E resp \in resps :
    /\ pc[r] = "fetch"
    /\ route[r].cmd = "market"
    /\ respSeen' = [respSeen EXCEPT ![r] = resp]
    /\ gets' = [gets EXCEPT ![r] = @ + GetsPerCall(resp)]
    /\ pending' = [pending EXCEPT ![r] = MarketReply(get_prices(resp))]
    /\ guarded' = [guarded EXCEPT ![r] = FALSE]
    /\ pc' = [pc EXCEPT ![r] = "send"]
    /\ UNCHANGED <<body, route, portfolio, sent, status, escaped, fileSeen>>

\* profit's local variable portfolio, read after the await of get_prices.
SharedPortfolio(r) ==
  portfolio[CHOOSE q \in Requests : pc[q] = "fetch" /\ route[q].cmd = "profit"]
LocalPortfolio(r) == portfolio[r]

\* profit after get_prices returned: the reply handed to reply_text inside
\* the try block, or the except clause's when calculate_profit raised.
ProfitAfterPrices(prices, data) ==
  IF IsNone(prices) THEN [text |-> PricesError, guarded |-> TRUE]
  ELSE IF calculate_profit(prices, data).ok
  THEN [text |-> ProfitReply(calculate_profit(prices, data).lines), guarded |-> TRUE]
  ELSE [text |-> ExceptLine("profit"), guarded |-> FALSE]

\* profit, from the provider's answer to reply_text.
FetchProfit(r, resps) ==
  \E resp \in resps :
    /\ pc[r] = "fetch"
    /\ route[r].cmd = "profit"
    /\ respSeen' = [respSeen EXCEPT ![r] = resp]
    /\ gets' = [gets EXCEPT ![r] = @ + GetsPerCall(resp)]
    /\ pending' = [pending EXCEPT ![r] =
                     ProfitAfterPrices(get_prices(resp), LocalPortfolio(r)).text]
    /\ guarded' = [guarded EXCEPT ![r] =
                     ProfitAfterPrices(get_prices(resp), LocalPortfolio(r)).guarded]
    /\ pc' = [pc EXCEPT ![r] = "send"]
    /\ UNCHANGED <<body, route, portfolio, sent, status, escaped, fileSeen>>

\* reply_text succeeds: the handler returns and the endpoint answers.
SendOk(r) ==
  /\ pc[r] = "send"
  /\ sent' = [sent EXCEPT ![r] = Append(@, [text |-> pending[r], ok |-> TRUE])]
  /\ status' = [status EXCEPT ![r] = HTTP_OK]
  /\ pc' = [pc EXCEPT ![r] = "done"]
  /\ UNCHANGED <<body, route, portfolio, pending, guarded, gets, escaped,
                 fileSeen, respSeen>>

\* reply_text raises inside the try block of portfolio or profit: the except
\* clause calls reply_text with its own line.
SendFailsCaught(r) ==
  /\ pc[r] = "send"
  /\ guarded[r]
  /\ sent' = [sent EXCEPT ![r] = Append(@, [text |-> pending[r], ok |-> FALSE])]
  /\ pending' = [pending EXCEPT ![r] = ExceptLine(route[r].cmd)]
  /\ guarded' = [guarded EXCEPT ![r] = FALSE]
  /\ UNCHANGED <<pc, body, route, portfolio, gets, status, escaped,
                 fileSeen, respSeen>>

\* reply_text raises outside any try block: the exception leaves the handler,
\* Application.process_update logs it, and the endpoint answers.
SendFailsEscapes(r) ==
  /\ pc[r] = "send"
  /\ ~guarded[r]
  /\ sent' = [sent EXCEPT ![r] = Append(@, [text |-> pending[r], ok |-> FALSE])]
  /\ escaped' = [escaped EXCEPT ![r] = TRUE]
  /\ status' = [status EXCEPT ![r] = HTTP_OK]
  /\ pc' = [pc EXCEPT ![r] = "done"]
  /\ UNCHANGED <<body, route, portfolio, pending, guarded, gets,
                 fileSeen, respSeen>>

\* The response is out and the request's locals are gone: the slot is free
\* for the next delivery.
Forget(r) ==
  /\ pc[r] = "done"
  /\ pc' = [pc EXCEPT ![r] = "idle"]
  /\ body' = [body EXCEPT ![r] = NoBody]
  /\ route' = [route EXCEPT ![r] = NoRoute]
  /\ portfolio' = [portfolio EXCEPT ![r] = NoFile]
  /\ pending' = [pending EXCEPT ![r] = NoReply]
  /\ guarded' = [guarded EXCEPT ![r] = FALSE]
  /\ sent' = [sent EXCEPT ![r] = <<>>]
  /\ gets' = [gets EXCEPT ![r] = 0]
  /\ status' = [status EXCEPT ![r] = 0]
  /\ escaped' = [escaped EXCEPT ![r] = FALSE]
  /\ fileSeen' = [fileSeen EXCEPT ![r] = NoFile]
  /\ respSeen' = [respSeen EXCEPT ![r] = NoResponse]

\* ---------------------------------------------------------- specifications

\* The host takes a delivery only when no other is being handled.
Alone(r) == \A q \in Requests \ {r} : pc[q] = "idle"

\* One delivery at a time, over all the inputs.
Next ==
  \E r \in Requests :
    \/ Alone(r) /\ ReceiveUndecodable(r, Bodies)
    \/ Alone(r) /\ ReceiveUnhandled(r, Bodies)
    \/ Alone(r) /\ ReceiveStatic(r, Bodies)
    \/ Alone(r) /\ ReceivePortfolio(r, Bodies, Files)
    \/ Alone(r) /\ ReceiveMarket(r, Bodies)
    \/ Alone(r) /\ ReceiveProfit(r, Bodies, Files)
    \/ FetchMarket(r, Responses)
    \/ FetchProfit(r, Responses)
    \/ SendOk(r)
    \/ SendFailsCaught(r)
    \/ SendFailsEscapes(r)
    \/ Forget(r)

Spec == Init /\ [][Next]_vars

\* The inputs of the interleaved deliveries.
ConcBodies ==
  { Body(FALSE, FALSE, <<>>), Body(TRUE, TRUE, <<Slash>> \o Lat(<<"f", "o", "o">>)),
    Body(TRUE, TRUE, TokNft), Body(TRUE, TRUE, TokPortfel),
    Body(TRUE, TRUE, TokRynok), Body(TRUE, TRUE, TokProfit) }
ConcFiles ==
  { File(FALSE, FALSE, FALSE, <<>>),
    File(TRUE, TRUE, TRUE, <<Entry("BTC", StdInfo(10000))>>),
    File(TRUE, TRUE, TRUE, <<Entry("BTC", StdInfo(30000))>>) }
ConcResponses ==
  { Response(FALSE, 0, FALSE, NoData), Response(TRUE, 200, TRUE, Quote(120000)) }

\* Deliveries handled concurrently: a handler runs until its next await, and
\* the handlers of other deliveries run in between.
NextConc ==
  \E r \in Requests :
    \/ ReceiveUndecodable(r, ConcBodies)
    \/ ReceiveUnhandled(r, ConcBodies)
    \/ ReceiveStatic(r, ConcBodies)
    \/ ReceivePortfolio(r, ConcBodies, ConcFiles)
    \/ ReceiveMarket(r, ConcBodies)
    \/ ReceiveProfit(r, ConcBodies, ConcFiles)
    \/ FetchMarket(r, ConcResponses)
    \/ FetchProfit(r, ConcResponses)
    \/ SendOk(r)
    \/ SendFailsCaught(r)
    \/ SendFailsEscapes(r)
    \/ Forget(r)

SpecConc == Init /\ [][NextConc]_vars

\* ------------------------------------------------------------------ claims

Done(r) == pc[r] = "done"
Cmd(r) == route[r].cmd
AllSendsOk(r) == \A i \in 1..Len(sent[r]) : sent[r][i].ok

\* The load of portfolio.json failed for the request.
LoadFailed(r) ==
  /\ Cmd(r) \in {"portfolio", "profit"}
  /\ ~fileSeen[r].exists \/ ~fileSeen[r].valid

\* The provider's answer is a failure: no connection, a status outside 2xx,
\* a body that is not the expected JSON, or a body without one of the symbols.
BadResponse(resp) ==
  \/ ~resp.net
  \/ resp.status < 200 \/ resp.status > 299
  \/ ~resp.json
  \/ \E s \in SymbolSet : s \notin DOMAIN resp.data
FetchFailed(r) == gets[r] > 0 /\ BadResponse(respSeen[r])
FetchWorked(r) == gets[r] > 0 /\ ~BadResponse(respSeen[r])

FailureLines == {PortfolioError, MarketError, PricesError, ProfitError}

\* A profit request that loaded an object, got its quote and sent its reply.
ProfitAnswered(r) ==
  /\ Done(r)
  /\ Cmd(r) = "profit"
  /\ fileSeen[r].exists /\ fileSeen[r].valid /\ fileSeen[r].object
  /\ FetchWorked(r)
  /\ AllSendsOk(r)

Keys(es) == [i \in 1..Len(es) |-> es[i].key]
Tokens(lines) == [i \in 1..Len(lines) |-> lines[i].token]
IsQuoted(e) == e.key \in SymbolSet
HasBuy(e) == "buy_usd" \in DOMAIN e.info
IsZeroBuy(e) == HasBuy(e) /\ e.info.buy_usd = 0
IsPriced(e) == IsQuoted(e) /\ HasBuy(e) /\ e.info.buy_usd # 0

\* C1: when the load or the fetch a portfolio, market or profit request needs
\* fails and the send succeeds, the request sends exactly one reply, a fixed
\* failure line without data, and no exception leaves the handler.
C1_FailureLine ==
  \A r \in Requests :
    ( /\ Done(r)
      /\ Cmd(r) \in {"portfolio", "market", "profit"}
      /\ LoadFailed(r) \/ FetchFailed(r)
      /\ AllSendsOk(r) )
    => /\ Len(sent[r]) = 1
       /\ sent[r][1].text \in FailureLines
       /\ sent[r][1].text.body = <<>>
       /\ ~escaped[r]

C1_Witness ==
  \E r \in Requests :
    /\ Done(r)
    /\ Cmd(r) = "market"
    /\ FetchFailed(r)
    /\ sent[r] = <<[text |-> MarketError, ok |-> TRUE]>>

\* C2 (as claimed): an entry with a purchase price of 0 is left out of the
\* profit reply, which still is a profit reply with a line for every quoted
\* entry that has a non-zero purchase price.
C2_ZeroPurchaseSkipped ==
  \A r \in Requests :
    ( /\ ProfitAnswered(r)
      /\ \E i \in 1..Len(fileSeen[r].entries) :
           IsQuoted(fileSeen[r].entries[i]) /\ IsZeroBuy(fileSeen[r].entries[i])
      /\ \A i \in 1..Len(fileSeen[r].entries) :
           IsQuoted(fileSeen[r].entries[i]) => HasBuy(fileSeen[r].entries[i]) )
    => /\ Len(sent[r]) = 1
       /\ sent[r][1].text.kind = "profit"
       /\ Tokens(sent[r][1].text.body) = Keys(SelectSeq(fileSeen[r].entries, IsPriced))

\* C3 (as claimed): every text message is routed to one handler and gets one
\* reply, and a text that, lowered, is not exactly a command token goes to
\* echo's last branch and gets the help line.
KnownTokens ==
  { TokPortfel, TokRynok, TokProfit, TokNft,
    <<Slash>> \o CmdStart, <<Slash>> \o CmdPortfolio,
    <<Slash>> \o CmdMarket, <<Slash>> \o CmdProfit }
C3_DispatchTotalExact ==
  \A r \in Requests :
    ( /\ Done(r)
      /\ body[r].json /\ body[r].update
      /\ Len(body[r].text) > 0
      /\ AllSendsOk(r) )
    => /\ route[r].via # "none"
       /\ Len(sent[r]) = 1
       /\ Lower(body[r].text) \notin KnownTokens
            => route[r] = [via |-> "echo", cmd |-> "help"]
               /\ sent[r][1].text = HelpReply

\* C4 (as claimed): every delivery is answered with HTTP 200.
C4_AlwaysOk ==
  \A r \in Requests : Done(r) => status[r] = HTTP_OK

\* C5 (as claimed): every market and every profit request issues exactly one
\* GET, whatever its outcome.
C5_ExactlyOneGet ==
  \A r \in Requests :
    (Done(r) /\ Cmd(r) \in {"market", "profit"}) => gets[r] = 1

\* C5 (amended): a request never issues more than one GET; every market
\* request, and every profit request whose portfolio load succeeds, issues
\* exactly one, whether the provider answers or fails; a profit request whose
\* portfolio load fails issues none.
C5_OneGetUnlessLoadFails ==
  \A r \in Requests :
    /\ gets[r] <= 1
    /\ (Done(r) /\ Cmd(r) = "market") => gets[r] = 1
    /\ (Done(r) /\ Cmd(r) = "profit") => gets[r] = IF LoadFailed(r) THEN 0 ELSE 1

C5_Witness ==
  \E r \in Requests :
    /\ Done(r)
    /\ Cmd(r) = "profit"
    /\ FetchFailed(r)
    /\ gets[r] = 1

\* C6 (as claimed): once a send of the reply has failed, the handler makes no
\* further send attempt for that message.
C6_NoResend ==
  \A r \in Requests :
    \A i \in 1..Len(sent[r]) : ~sent[r][i].ok => i = Len(sent[r])

\* C7 (as claimed): a quoted entry without buy_usd is skipped, and the profit
\* reply still is a profit reply with a line for every quoted entry that has
\* a non-zero purchase price.
C7_MissingPurchaseSkipped ==
  \A r \in Requests :
    ( /\ ProfitAnswered(r)
      /\ \E i \in 1..Len(fileSeen[r].entries) :
           IsQuoted(fileSeen[r].entries[i]) /\ ~HasBuy(fileSeen[r].entries[i])
      /\ \A i \in 1..Len(fileSeen[r].entries) : ~IsZeroBuy(fileSeen[r].entries[i]) )
    => /\ Len(sent[r]) = 1
       /\ sent[r][1].text.kind = "profit"
       /\ Tokens(sent[r][1].text.body) = Keys(SelectSeq(fileSeen[r].entries, IsPriced))

\* What a request replies when it is handled alone: its first reply as a
\* function of its own command, the file content it read and the provider's
\* answer to its own GET.
SoloReply(cmd, f, resp) ==
  IF cmd = "portfolio"
  THEN IF PortfolioBuilt(f) THEN PortfolioReply(f) ELSE PortfolioError
  ELSE IF cmd = "market" THEN MarketReply(get_prices(resp))
  ELSE IF cmd = "profit"
  THEN IF ~LoadOk(f) THEN ProfitError ELSE ProfitAfterPrices(get_prices(resp), f).text
  ELSE StaticReply(cmd)

\* C8: under any interleaving of deliveries, the reply of a request is the
\* one it would produce alone from the file content it read and the answer
\* to its own GET; a later attempt is the except clause's fixed line.
C8_RepliesIndependent ==
  \A r \in Requests :
    /\ (pc[r] = "send" /\ sent[r] = <<>>)
         => pending[r] = SoloReply(Cmd(r), fileSeen[r], respSeen[r])
    /\ \A i \in 1..Len(sent[r]) :
         sent[r][i].text = IF i = 1 THEN SoloReply(Cmd(r), fileSeen[r], respSeen[r])
                           ELSE ExceptLine(Cmd(r))

\* Two profit requests in flight at once, each with its own portfolio: one
\* has its profit reply ready while the other still awaits its GET.
C8_Witness ==
  \E r, q \in Requests :
    /\ r # q
    /\ pc[r] = "send" /\ Cmd(r) = "profit"
    /\ sent[r] = <<>> /\ pending[r].kind = "profit"
    /\ pc[q] = "fetch" /\ Cmd(q) = "profit"
    /\ fileSeen[q].object /\ fileSeen[q] # fileSeen[r]

\* C9 (as claimed): the profit reply has no line for an entry whose symbol is
\* not quoted, no error comes of such an entry, and the quoted entries are
\* listed in the portfolio's order, one line each.
C9_QuotedEntriesListed ==
  \A r \in Requests :
    ( /\ ProfitAnswered(r)
      /\ \E i \in 1..Len(fileSeen[r].entries) : ~IsQuoted(fileSeen[r].entries[i]) )
    => /\ Len(sent[r]) = 1
       /\ sent[r][1].text.kind = "profit"
       /\ Tokens(sent[r][1].text.body) = Keys(SelectSeq(fileSeen[r].entries, IsQuoted))

\* The rounded price (cents) the request was quoted for a symbol.
QuotedPrice(r, s) == Round(respSeen[r].data[s], 10)
\* The purchase price of the entry of a symbol in the file the request read.
BuyOf(r, s) ==
  LET i == CHOOSE i \in 1..Len(fileSeen[r].entries) : fileSeen[r].entries[i].key = s
  IN  fileSeen[r].entries[i].info.buy_usd

\* C10: a profit line carries the up marker exactly when its percent, rounded
\* to two decimals, is strictly positive, that is when the exact gain is more
\* than half a hundredth of a percent; otherwise it carries the down marker.
C10_TrendMarker ==
  \A r \in Requests :
    \A i \in 1..Len(sent[r]) :
      sent[r][i].text.kind = "profit"
      => \A j \in 1..Len(sent[r][i].text.body) :
           LET line == sent[r][i].text.body[j]
               gain == QuotedPrice(r, line.token) - BuyOf(r, line.token)
           IN  /\ line.arrow \in {"up", "down"}
               /\ line.arrow = "up" <=> line.percent > 0
               /\ line.arrow = "up" <=> 2 * 10000 * gain > BuyOf(r, line.token)

\* A gain too small to survive the rounding carries the down marker.
C10_Witness ==
  \E r \in Requests :
    /\ Len(sent[r]) = 1
    /\ sent[r][1].text.kind = "profit"
    /\ \E j \in 1..Len(sent[r][1].text.body) :
         LET line == sent[r][1].text.body[j]
         IN  /\ QuotedPrice(r, line.token) > BuyOf(r, line.token)
             /\ line.percent = 0
             /\ line.arrow = "down"

====
